---- MODULE Spec2Model ----
(***************************************************************************)
(* A model of the world-indexing layer of Minecraft Overviewer             *)
(* (src/world.py, Python 2): region discovery, the reader cache, the       *)
(* diagonal coordinate transform, the bounds scan and the spawn scan.      *)
(*                                                                         *)
(* Strings are sequences of one-character strings, so that the filename    *)
(* tests and the integer parse are computed as the code computes them.     *)
(* Python 2 integer division (/ and //) is floor division, which is what   *)
(* \div is for a positive divisor.                                         *)
(***************************************************************************)
EXTENDS Integers, Sequences, FiniteSets, TLC

(***************************************************************************)
(* Program constants                                                       *)
(***************************************************************************)
RegionSize == 32
ChunkSize == 16
ChunkHeight == 128
RequiredVersion == 19132

(***************************************************************************)
(* Bounds of the model                                                     *)
(***************************************************************************)
MaxFiles == 2
MaxList == 1
MaxRegion == 1
MaxCoord == 3
MaxPOI == 2

(***************************************************************************)
(* Python string operations                                                *)
(***************************************************************************)
StartsWith(s, pre) ==
    /\ Len(s) >= Len(pre)
    /\ SubSeq(s, 1, Len(pre)) = pre

EndsWith(s, suf) ==
    /\ Len(s) >= Len(suf)
    /\ SubSeq(s, Len(s) - Len(suf) + 1, Len(s)) = suf

\* sub in s
Contains(s, sub) ==
    \E i \in 1..(Len(s) - Len(sub) + 1) : SubSeq(s, i, i + Len(sub) - 1) = sub

\* s.split(sep) for a one-character separator
RECURSIVE Split(_, _)
Split(s, sep) ==
    IF \A i \in 1..Len(s) : s[i] # sep
    THEN <<s>>
    ELSE LET i == CHOOSE j \in 1..Len(s) :
                      s[j] = sep /\ \A k \in 1..(j - 1) : s[k] # sep
         IN <<SubSeq(s, 1, i - 1)>> \o Split(SubSeq(s, i + 1, Len(s)), sep)

\* os.path.basename: what follows the last "/"
Basename(path) ==
    IF \A i \in 1..Len(path) : path[i] # "/"
    THEN path
    ELSE LET i == CHOOSE j \in 1..Len(path) :
                      path[j] = "/" /\ \A k \in (j + 1)..Len(path) : path[k] # "/"
         IN SubSeq(path, i + 1, Len(path))

\* os.path.join of two components (posix)
Join(a, b) ==
    IF StartsWith(b, <<"/">>) THEN b
    ELSE IF a = <<>> \/ EndsWith(a, <<"/">>) THEN a \o b
    ELSE a \o <<"/">> \o b

Digits == {"0", "1", "2", "3", "4", "5", "6", "7", "8", "9"}

DigitVal(c) ==
    CASE c = "0" -> 0 [] c = "1" -> 1 [] c = "2" -> 2 [] c = "3" -> 3
      [] c = "4" -> 4 [] c = "5" -> 5 [] c = "6" -> 6 [] c = "7" -> 7
      [] c = "8" -> 8 [] c = "9" -> 9

RECURSIVE DecimalVal(_)
DecimalVal(s) ==
    IF s = <<>> THEN 0
    ELSE 10 * DecimalVal(SubSeq(s, 1, Len(s) - 1)) + DigitVal(s[Len(s)])

\* the characters int() takes as blanks: those of isspace, the vertical tab
\* among them
VT == ""
Blanks == {" ", "\t", "\n", VT, "\f", "\r"}

\* s without its leading blanks
RECURSIVE StripLeft(_)
StripLeft(s) ==
    IF s # <<>> /\ s[1] \in Blanks THEN StripLeft(Tail(s)) ELSE s

\* s without its leading and trailing blanks
RECURSIVE Strip(_)
Strip(s) ==
    LET t == StripLeft(s)
    IN IF t # <<>> /\ t[Len(t)] \in Blanks THEN Strip(SubSeq(t, 1, Len(t) - 1)) ELSE t

\* an optional sign, any blanks after it and at least one decimal digit,
\* ValueError otherwise (ok is FALSE)
SignedDecimal(s) ==
    LET signed == s # <<>> /\ s[1] \in {"-", "+"}
        body == IF signed THEN StripLeft(Tail(s)) ELSE s
    IN IF body # <<>> /\ \A i \in 1..Len(body) : body[i] \in Digits
       THEN [ok |-> TRUE,
             val |-> IF signed /\ s[1] = "-" THEN 0 - DecimalVal(body)
                     ELSE DecimalVal(body)]
       ELSE [ok |-> FALSE, val |-> 0]

\* int(s): the blanks around s are dropped, what is left is a signed decimal
ParseInt(s) == SignedDecimal(Strip(s))

(***************************************************************************)
(* File names and directories used as inputs                               *)
(***************************************************************************)
Dot == <<".">>
Mcr == <<"m", "c", "r">>
RPrefix == <<"r", ".">>
McrSuffix == <<".", "m", "c", "r">>
Newline == "\n"

RegionName(x, y) == <<"r">> \o Dot \o x \o Dot \o y \o Dot \o Mcr

N_0_0 == RegionName(<<"0">>, <<"0">>)
N_m1_0 == RegionName(<<"-", "1">>, <<"0">>)
N_0_m1 == RegionName(<<"0">>, <<"-", "1">>)
N_1_1 == RegionName(<<"1">>, <<"1">>)
N_m12_3 == RegionName(<<"-", "1", "2">>, <<"3">>)
N_dup == <<"r">> \o Dot \o <<"0">> \o Dot \o <<"0">> \o Dot \o <<"x">> \o Dot \o Mcr
N_bad == RegionName(<<"a">>, <<"0">>)
N_blank == RegionName(<<" ", "+", " ", "1">>, <<"1", VT>>)
N_txt == <<"x", ".", "t", "x", "t">>

WorldDir == <<"w">>
RegionDirName == <<"r", "e", "g", "i", "o", "n">>
RegionDir == Join(WorldDir, RegionDirName)
DimMarker == <<"D", "I", "M", "-", "1">>
SubDirNames == {<<"s">>, DimMarker}

(***************************************************************************)
(* State                                                                   *)
(*   fs          the tree under <worlddir>/region: the listing of the      *)
(*               directory itself and of its sub-directories               *)
(*   regionlist  the regionlist argument of World(...)                     *)
(*   leveldat    the Data compound of <worlddir>/level.dat                 *)
(*   blocks      the spawn chunk as the region file holds it               *)
(*   pickleFile  <worlddir>/overviewer.dat: whether it exists, what it     *)
(*               holds                                                     *)
(*   pc          where the program is                                      *)
(*   outcome     how the last operation ended                              *)
(*   regionfiles, regions, POI, persistentData, mincol, maxcol, minrow,    *)
(*   maxrow                                                                *)
(*               the attributes of the World object                        *)
(*   trace       the file operations World has issued, in order            *)
(*   reads       the subscripts findTrueSpawn applied to blockArray        *)
(*   spawnY, inChunk  the locals spawnY and (inChunkX, inChunkZ) of            *)
(*               findTrueSpawn                                             *)
(*   lastCall    the last method call with its arguments and result        *)
(***************************************************************************)
VARIABLES fs, regionlist, leveldat, blocks, pickleFile, pc, outcome,
          regionfiles, regions, POI, persistentData, mincol, maxcol, minrow, maxrow,
          trace, reads, spawnY, inChunk, lastCall

vars == <<fs, regionlist, leveldat, blocks, pickleFile, pc, outcome,
          regionfiles, regions, POI, persistentData, mincol, maxcol, minrow, maxrow,
          trace, reads, spawnY, inChunk, lastCall>>

envVars == <<fs, regionlist, leveldat, blocks, pickleFile>>
boxVars == <<mincol, maxcol, minrow, maxrow>>
scanVars == <<reads, spawnY, inChunk>>

\* Python's None where a path is expected; no joined path is empty
None == <<>>
EmptyDict == [k \in {} |-> 0]
NoCall == [op |-> "none"]

(***************************************************************************)
(* World._iterate_regionfiles                                              *)
(***************************************************************************)
\* what a generator yields before it stops or raises
NoItems == [items |-> <<>>, err |-> "none"]

Chain(a, b) ==
    IF a.err # "none" THEN a
    ELSE [items |-> a.items \o b.items, err |-> b.err]

\* (int(p[1]), int(p[2])) for the n parts p of a filename, x and y being
\* the two parses
RegionKey(x, y, n) ==
    IF ~x.ok THEN [err |-> "ValueError", x |-> 0, y |-> 0]
    ELSE IF n < 3 THEN [err |-> "IndexError", x |-> 0, y |-> 0]
    ELSE IF ~y.ok THEN [err |-> "ValueError", x |-> 0, y |-> 0]
    ELSE [err |-> "none", x |-> x.val, y |-> y.val]

\* p = f.split("."), then the two parses
ParseParts(p) ==
    RegionKey(ParseInt(p[2]),
              IF Len(p) >= 3 THEN ParseInt(p[3]) ELSE [ok |-> FALSE, val |-> 0],
              Len(p))

\* the filename test of one entry
IsRegionName(f) == StartsWith(f, RPrefix) /\ EndsWith(f, McrSuffix)

\* the yield statement: the tuple (x, y, path), or the error of the parse
YieldItem(k, path) ==
    IF k.err # "none" THEN [items |-> <<>>, err |-> k.err]
    ELSE [items |-> <<<<k.x, k.y, path>>>>, err |-> "none"]

\* one filename f of the directory dirpath
YieldFile(dirpath, f) ==
    IF IsRegionName(f) THEN YieldItem(ParseParts(Split(f, ".")), Join(dirpath, f))
    ELSE NoItems

\* path.endswith("\n") and path[:-1]
StripNewline(path) ==
    IF EndsWith(path, <<Newline>>) THEN SubSeq(path, 1, Len(path) - 1) ELSE path

\* the regionlist branch: one entry after the other
RECURSIVE IterateList(_)
IterateList(entries) ==
    IF entries = <<>> THEN NoItems
    ELSE Chain(YieldFile(Join(WorldDir, RegionDirName), Basename(StripNewline(Head(entries)))),
               IterateList(Tail(entries)))

\* the filenames of one directory of the walk
RECURSIVE IterateFiles(_, _)
IterateFiles(dirpath, filenames) ==
    IF filenames = <<>> THEN NoItems
    ELSE Chain(YieldFile(dirpath, Head(filenames)),
               IterateFiles(dirpath, Tail(filenames)))

\* os.walk, top down: (dirpath, dirnames, filenames) of the root, then of
\* each sub-directory
Walk(tree) ==
    <<[dirpath |-> RegionDir,
       dirnames |-> [i \in 1..Len(tree.subdirs) |-> tree.subdirs[i].name],
       filenames |-> tree.files]>>
    \o [i \in 1..Len(tree.subdirs) |->
          [dirpath |-> Join(RegionDir, tree.subdirs[i].name),
           dirnames |-> <<>>,
           filenames |-> tree.subdirs[i].files]]

\* one (dirpath, dirnames, filenames) of the walk
IterateDir(d) ==
    IF d.dirnames = <<>> /\ d.filenames # <<>> /\ ~Contains(d.dirpath, DimMarker)
    THEN IterateFiles(d.dirpath, d.filenames)
    ELSE NoItems

RECURSIVE IterateWalk(_)
IterateWalk(dirs) ==
    IF dirs = <<>> THEN NoItems
    ELSE Chain(IterateDir(Head(dirs)), IterateWalk(Tail(dirs)))

\* the regionlist parameter: [given |-> FALSE] is None
NoRegionList == [given |-> FALSE, entries |-> <<>>]

iterate_regionfiles(tree, rl) ==
    IF rl.given THEN IterateList(rl.entries) ELSE IterateWalk(Walk(tree))

(***************************************************************************)
(* World.__init__                                                          *)
(***************************************************************************)
\* the dictionaries the loop of __init__ fills, item i getting reader i
RECURSIVE BuildRegionfiles(_)
BuildRegionfiles(items) ==
    IF items = <<>> THEN EmptyDict
    ELSE LET it == items[Len(items)]
         IN (<<it[1], it[2]>> :> it) @@ BuildRegionfiles(SubSeq(items, 1, Len(items) - 1))

RECURSIVE BuildRegions(_)
BuildRegions(items) ==
    IF items = <<>> THEN EmptyDict
    ELSE LET it == items[Len(items)]
         IN (it[3] :> Len(items)) @@ BuildRegions(SubSeq(items, 1, Len(items) - 1))

\* the file operations of the loop: a reader is created and its header
\* parsed for every item
RECURSIVE OpenTrace(_)
OpenTrace(items) ==
    IF items = <<>> THEN <<>>
    ELSE <<<<"open", Head(items)[3]>>, <<"parse", Head(items)[3]>>>>
         \o OpenTrace(Tail(items))

LevelDatPath == Join(WorldDir, <<"l", "e", "v", "e", "l", ".", "d", "a", "t">>)

\* the argument __init__ hands to _iterate_regionfiles: the call is
\* self._iterate_regionfiles(), so the parameter takes its default, None
PassedRegionList(rl) == NoRegionList

\* the file operations of region discovery
DiscoveryTrace(passed, items) ==
    (IF passed.given THEN <<>> ELSE <<<<"walk", RegionDir>>>>) \o OpenTrace(items)

\* the order in which __init__ does its work: the loop over the region files
\* (it is what the generator gave), then level.dat and the version test
InitOrder(passed, it, data) ==
    IF it.err # "none"
    THEN [pc |-> "raised", outcome |-> it.err, items |-> it.items,
          trace |-> DiscoveryTrace(passed, it.items)]
    ELSE IF ~(data.hasVersion /\ data.version = RequiredVersion)
    THEN [pc |-> "exited", outcome |-> "unsupported format", items |-> it.items,
          trace |-> DiscoveryTrace(passed, it.items) \o <<<<"load", LevelDatPath>>>>]
    ELSE [pc |-> "constructed", outcome |-> "ok", items |-> it.items,
          trace |-> DiscoveryTrace(passed, it.items) \o <<<<"load", LevelDatPath>>>>]

InitSteps(tree, rl, data) ==
    InitOrder(PassedRegionList(rl), iterate_regionfiles(tree, PassedRegionList(rl)), data)

PicklePath ==
    Join(WorldDir, <<"o", "v", "e", "r", "v", "i", "e", "w", "e", "r", ".", "d", "a", "t">>)

\* the defaults of persistentData when there is no overviewer.dat
DefaultData == [POI |-> <<>>]

\* the attributes __init__ leaves behind: regionfiles and regions once the
\* loop over the region files has ended, before level.dat is read; past the
\* version test it resets POI and loads overviewer.dat when the file exists
\* (prepareBiomeData, with useBiomeData, leaves the World as it is)
Constructed(r) ==
    /\ pc' = r.pc
    /\ outcome' = r.outcome
    /\ trace' = trace \o r.trace
                 \o (IF r.pc = "constructed" /\ pickleFile.exists
                     THEN <<<<"load", PicklePath>>>> ELSE <<>>)
    /\ persistentData' = IF r.pc # "constructed" THEN persistentData
                         ELSE IF pickleFile.exists THEN pickleFile.data
                         ELSE DefaultData
    /\ regionfiles' = IF r.pc # "raised" THEN BuildRegionfiles(r.items)
                      ELSE regionfiles
    /\ regions' = IF r.pc # "raised" THEN BuildRegions(r.items) ELSE regions

Construct ==
    /\ pc = "start"
    /\ Constructed(InitSteps(fs, regionlist, leveldat))
    /\ lastCall' = [op |-> "__init__"]
    /\ POI' = <<>>
    /\ UNCHANGED <<envVars, boxVars, scanVars>>

(***************************************************************************)
(* World.get_region_path, World.convert_coords, World.unconvert_coords     *)
(***************************************************************************)
\* integer division that rounds toward zero
TruncDiv(a, b) == IF a >= 0 THEN a \div b ELSE 0 - ((0 - a) \div b)

\* get_region_path with truncating division
get_region_path_trunc(rf, chunkX, chunkY) ==
    LET key == <<TruncDiv(chunkX, RegionSize), TruncDiv(chunkY, RegionSize)>>
    IN IF key \in DOMAIN rf THEN rf[key][3] ELSE None

\* dict.get(key, (None, None, None)) and the third component of the result
get_region_path(rf, chunkX, chunkY) ==
    LET key == <<chunkX \div RegionSize, chunkY \div RegionSize>>
    IN IF key \in DOMAIN rf THEN rf[key][3] ELSE None

convert_coords(chunkx, chunky) == <<chunkx + chunky, chunky - chunkx>>

\* unconvert_coords with its two components exchanged
unconvert_coords_swapped(col, row) == <<(col + row) \div 2, (col - row) \div 2>>

unconvert_coords(col, row) == <<(col - row) \div 2, (col + row) \div 2>>

(***************************************************************************)
(* World.findTrueSpawn                                                     *)
(***************************************************************************)
Min2(a, b) == IF a <= b THEN a ELSE b
Max2(a, b) == IF a >= b THEN a ELSE b

\* a numpy subscript i on an axis of length n: negative subscripts count
\* from the end, anything outside -n..n-1 raises IndexError
Subscript(i, n) ==
    IF 0 <= i /\ i < n THEN [ok |-> TRUE, at |-> i]
    ELSE IF 0 - n <= i /\ i < 0 THEN [ok |-> TRUE, at |-> i + n]
    ELSE [ok |-> FALSE, at |-> 0]

\* the material id of a voxel: the heights in b.air hold air (0), every
\* other voxel is solid (1)
BlockAt(b, x, z, h) == IF h \in b.air THEN 0 ELSE 1

\* one pass leaving the loop one voxel early, at the last height instead of
\* past it
ScanUp_early(b, inChunkX, inChunkZ, y) ==
    LET sx == Subscript(inChunkX, ChunkSize)
        sz == Subscript(inChunkZ, ChunkSize)
        sy == Subscript(y, ChunkHeight)
    IN IF ~(sx.ok /\ sz.ok /\ sy.ok)
       THEN [err |-> "IndexError", done |-> TRUE, y |-> y]
       ELSE IF BlockAt(b, sx.at, sz.at, sy.at) # 0
       THEN [err |-> "none", done |-> (y + 1 = ChunkHeight - 1), y |-> y + 1]
       ELSE [err |-> "none", done |-> TRUE, y |-> y]

\* one pass of the loop "while blockArray[inChunkX, inChunkZ, spawnY] != 0":
\* the test of the voxel at height y and, when it is solid, the body
ScanUp(b, inChunkX, inChunkZ, y) ==
    LET sx == Subscript(inChunkX, ChunkSize)
        sz == Subscript(inChunkZ, ChunkSize)
        sy == Subscript(y, ChunkHeight)
    IN IF ~(sx.ok /\ sz.ok /\ sy.ok)
       THEN [err |-> "IndexError", done |-> TRUE, y |-> y]
       ELSE IF BlockAt(b, sx.at, sz.at, sy.at) # 0
       THEN [err |-> "none", done |-> (y + 1 = ChunkHeight), y |-> y + 1]
       ELSE [err |-> "none", done |-> TRUE, y |-> y]

\* nbt.load_from_region(chunkFile, chunkX, chunkY)[1]: no file to open when
\* the path is None, nothing to subscript when the chunk slot is empty
LoadSpawnChunk(chunkFile, b) ==
    IF chunkFile = None THEN "lookup failure"
    ELSE IF ~b.present THEN "TypeError"
    ELSE "none"

\* the file operations of findTrueSpawn: level.dat is read again, then the
\* spawn chunk is asked of the nbt module by path and chunk coordinates
SpawnTrace(chunkFile, chunkX, chunkY) ==
    <<<<"load", LevelDatPath>>, <<"nbt.load_from_region", chunkFile, chunkX, chunkY>>>>

\* findTrueSpawn up to its loop: the chunk that holds the spawn position and
\* the position within it
findTrueSpawn(rf, data, b) ==
    LET spawnX == data.SpawnX
        spawnZ == data.SpawnZ
        chunkX == spawnX \div ChunkSize
        chunkY == spawnZ \div ChunkSize
        chunkFile == get_region_path(rf, chunkX, chunkY)
    IN [err |-> LoadSpawnChunk(chunkFile, b),
        inChunkX |-> spawnX - (chunkX * ChunkSize),
        inChunkZ |-> spawnZ - (chunkY * ChunkSize),
        trace |-> SpawnTrace(chunkFile, chunkX, chunkY)]

\* the state findTrueSpawn is in when it reaches its loop, or has raised
\* before it
SpawnScanStarted(sp) ==
    /\ spawnY' = leveldat.SpawnY
    /\ inChunk' = <<sp.inChunkX, sp.inChunkZ>>
    /\ trace' = trace \o sp.trace
    /\ pc' = IF sp.err = "none" THEN "scanning" ELSE "raised"
    /\ outcome' = IF sp.err = "none" THEN "ok" ELSE sp.err

\* the dictionary findTrueSpawn appends to self.POI
SpawnPOI(data, y, inChunkX, inChunkZ) ==
    [x |-> data.SpawnX, y |-> y, z |-> data.SpawnZ,
     msg |-> "Spawn", type |-> "spawn", chunk |-> <<inChunkX, inChunkZ>>]

(***************************************************************************)
(* World.go                                                                *)
(***************************************************************************)
\* the loop over self.regionfiles, started from minx = maxx = miny = maxy = 0
RECURSIVE ScanRegions(_, _)
ScanRegions(keys, acc) ==
    IF keys = {} THEN acc
    ELSE LET k == CHOOSE k \in keys : TRUE
         IN ScanRegions(keys \ {k},
                [found |-> TRUE,
                 minx |-> Min2(acc.minx, k[1]), maxx |-> Max2(acc.maxx, k[1]),
                 miny |-> Min2(acc.miny, k[2]), maxy |-> Max2(acc.maxy, k[2])])

\* the scan without its test for an empty index
RegionExtent_unchecked(keys) ==
    ScanRegions(keys, [found |-> TRUE, minx |-> 0, maxx |-> 0, miny |-> 0, maxy |-> 0])

RegionExtent(keys) ==
    ScanRegions(keys, [found |-> FALSE, minx |-> 0, maxx |-> 0, miny |-> 0, maxy |-> 0])

\* the chunk extent without the width of the last region
ChunkExtent_nopad(e) ==
    [minx |-> e.minx * RegionSize, miny |-> e.miny * RegionSize,
     maxx |-> e.maxx * RegionSize, maxy |-> e.maxy * RegionSize]

\* region coordinates to chunk coordinates
ChunkExtent(e) ==
    [minx |-> e.minx * RegionSize, miny |-> e.miny * RegionSize,
     maxx |-> e.maxx * RegionSize + RegionSize,
     maxy |-> e.maxy * RegionSize + RegionSize]

\* two of the four corners only
Corners_two(c) == <<<<c.minx, c.miny>>, <<c.maxx, c.maxy>>>>

\* the corners go projects
Corners(c) ==
    <<<<c.minx, c.miny>>, <<c.minx, c.maxy>>, <<c.maxx, c.miny>>, <<c.maxx, c.maxy>>>>

\* the loop over the corners, started from mincol = maxcol = minrow = maxrow = 0
RECURSIVE DiagonalBox(_, _)
DiagonalBox(corners, acc) ==
    IF corners = <<>> THEN acc
    ELSE LET cr == convert_coords(Head(corners)[1], Head(corners)[2])
         IN DiagonalBox(Tail(corners),
                [mincol |-> Min2(acc.mincol, cr[1]), maxcol |-> Max2(acc.maxcol, cr[1]),
                 minrow |-> Min2(acc.minrow, cr[2]), maxrow |-> Max2(acc.maxrow, cr[2])])

ZeroBox == [mincol |-> 0, maxcol |-> 0, minrow |-> 0, maxrow |-> 0]

\* a constructed World whose last call has returned
Usable == pc \in {"constructed", "scanned"}

\* go up to the loop of findTrueSpawn; go may be called again on a World on
\* which it has returned
Go ==
    /\ Usable
    /\ Len(POI) < MaxPOI
    /\ LET e == RegionExtent(DOMAIN regionfiles)
           box == DiagonalBox(Corners(ChunkExtent(e)), ZeroBox)
       IN IF ~e.found
          THEN /\ pc' = "exited"
               /\ outcome' = "no regions found"
               /\ UNCHANGED <<boxVars, spawnY, inChunk, trace>>
          ELSE /\ mincol' = box.mincol
               /\ maxcol' = box.maxcol
               /\ minrow' = box.minrow
               /\ maxrow' = box.maxrow
               /\ SpawnScanStarted(findTrueSpawn(regionfiles, leveldat, blocks))
    /\ lastCall' = [op |-> "go"]
    /\ UNCHANGED <<envVars, persistentData, regionfiles, regions, POI, reads>>

\* findTrueSpawn called on its own, up to its loop
FindTrueSpawn ==
    /\ Usable
    /\ Len(POI) < MaxPOI
    /\ SpawnScanStarted(findTrueSpawn(regionfiles, leveldat, blocks))
    /\ lastCall' = [op |-> "findTrueSpawn"]
    /\ UNCHANGED <<envVars, persistentData, regionfiles, regions, POI, reads, boxVars>>

\* one pass of the loop of findTrueSpawn and, when the loop is left, the
\* rest of findTrueSpawn and of the go that called it
FindTrueSpawnLoop ==
    /\ pc = "scanning"
    /\ LET r == ScanUp(blocks, inChunk[1], inChunk[2], spawnY)
       IN /\ reads' = reads \cup {<<inChunk[1], inChunk[2], spawnY>>}
          /\ spawnY' = r.y
          /\ pc' = IF r.err # "none" THEN "raised"
                   ELSE IF r.done THEN "scanned" ELSE "scanning"
          /\ outcome' = IF r.err # "none" THEN r.err ELSE "ok"
          /\ POI' = IF r.err = "none" /\ r.done
                    THEN Append(POI, SpawnPOI(leveldat, r.y, inChunk[1], inChunk[2]))
                    ELSE POI
    /\ UNCHANGED <<envVars, persistentData, regionfiles, regions, boxVars, trace, lastCall, inChunk>>

\* the number of readers World has created
OpenCount(tr) == Cardinality({i \in 1..Len(tr) : tr[i][1] = "open"})

\* load_region creating a reader on every call
load_region_reopen(regs, tr, filename) ==
    [err |-> "none", reader |-> OpenCount(tr) + 1, regions |-> regs,
     trace |-> tr \o <<<<"open", filename>>>>]

\* self.regions[filename]: the reader of the cache, KeyError for a path
\* that is not a key
load_region(regs, tr, filename) ==
    IF filename \in DOMAIN regs
    THEN [err |-> "none", reader |-> regs[filename], regions |-> regs, trace |-> tr]
    ELSE [err |-> "KeyError", reader |-> 0, regions |-> regs, trace |-> tr]

\* the chunk slots a caller asks for
SlotSamples == {0, RegionSize - 1}

\* the chunk coordinates a caller asks for: both ends of every region
\* within MaxRegion of the origin
ChunkSamples ==
    {k * RegionSize + d : k \in (0 - MaxRegion)..MaxRegion, d \in {0, RegionSize - 1}}

\* the paths a caller asks for: every cached one and one more
PathSamples == DOMAIN regions \cup {Join(RegionDir, N_1_1)}

GetRegionPath ==
    /\ Usable
    /\ \E chunkX \in ChunkSamples, chunkY \in {-1, 0} :
          lastCall' = [op |-> "get_region_path", chunkX |-> chunkX, chunkY |-> chunkY,
                       result |-> get_region_path(regionfiles, chunkX, chunkY)]
    /\ outcome' = "ok"
    /\ UNCHANGED <<envVars, persistentData, pc, regionfiles, regions, POI, boxVars, trace, scanVars>>

LoadRegion ==
    /\ Usable
    /\ \E filename \in PathSamples :
          LET r == load_region(regions, trace, filename)
          IN /\ lastCall' = [op |-> "load_region", filename |-> filename,
                             err |-> r.err, reader |-> r.reader]
             /\ regions' = r.regions
             /\ trace' = r.trace
             /\ outcome' = IF r.err = "none" THEN "ok" ELSE r.err
             /\ pc' = IF r.err = "none" THEN pc ELSE "raised"
    /\ UNCHANGED <<envVars, persistentData, regionfiles, POI, boxVars, scanVars>>

\* reader.load_chunk(x, y) and read_all on a reader whose header __init__ has
\* parsed: None for an empty slot, the chunk otherwise; no file is opened and
\* no header parsed
load_chunk(populated) == IF populated THEN "chunk" ELSE "None"

LoadFromRegion ==
    /\ Usable
    /\ \E filename \in PathSamples, x \in SlotSamples, y \in {0}, populated \in BOOLEAN :
          LET r == load_region(regions, trace, filename)
          IN /\ lastCall' = [op |-> "load_from_region", filename |-> filename,
                             x |-> x, y |-> y, err |-> r.err, reader |-> r.reader,
                             result |-> IF r.err = "none" THEN load_chunk(populated)
                                        ELSE "None"]
             /\ regions' = r.regions
             /\ trace' = r.trace
             /\ outcome' = IF r.err = "none" THEN "ok" ELSE r.err
             /\ pc' = IF r.err = "none" THEN pc ELSE "raised"
    /\ UNCHANGED <<envVars, persistentData, regionfiles, POI, boxVars, scanVars>>

(***************************************************************************)
(* The inputs: directory trees, region lists, level.dat, the spawn chunk   *)
(***************************************************************************)
FileNames == {N_0_0, N_m1_0, N_0_m1, N_blank, N_m12_3, N_dup, N_bad, N_txt}

\* the listings of a directory: up to n distinct names in any order
Listings(names, n) ==
    UNION {{q \in [1..m -> names] : \A i, j \in 1..m : i # j => q[i] # q[j]} : m \in 0..n}

FlatTrees == {[files |-> l, subdirs |-> <<>>] : l \in Listings(FileNames, MaxFiles)}

NestedTrees ==
    {[files |-> l, subdirs |-> <<[name |-> d, files |-> m]>>] :
        l \in {<<>>, <<N_1_1>>}, d \in SubDirNames,
        m \in {<<>>, <<N_0_0>>, <<N_m1_0, N_0_0>>}}

E_0_0_nl == N_0_0 \o <<Newline>>
E_path == <<"d", "/">> \o N_1_1
ListEntries == {E_0_0_nl, N_m1_0, E_path, N_txt, N_bad}

RegionLists ==
    {[given |-> TRUE, entries |-> l] : l \in Listings(ListEntries, MaxList)}
    \cup {[given |-> TRUE, entries |-> <<E_0_0_nl, N_m1_0>>]}

LevelDat(hasVersion, version, x, y, z) ==
    [hasVersion |-> hasVersion, version |-> version,
     SpawnX |-> x, SpawnY |-> y, SpawnZ |-> z]

Versions ==
    {LevelDat(TRUE, RequiredVersion, 0, 64, 0),
     LevelDat(TRUE, RequiredVersion - 1, 0, 64, 0),
     LevelDat(FALSE, 0, 0, 64, 0)}

AirHeights == {0, 64, ChunkHeight - 1}
SpawnXZs == {<<-17, 5>>, <<0, -1>>, <<16, 21>>}
SpawnYs == {0 - ChunkHeight - 1, -1, 0, 64, ChunkHeight - 1, ChunkHeight}

Volumes == {[present |-> TRUE, air |-> a] : a \in SUBSET AirHeights}
             \cup {[present |-> FALSE, air |-> {}]}

DefaultVolume == [present |-> TRUE, air |-> {64}]

NoPickle == [exists |-> FALSE, data |-> EmptyDict]
SavedPickle ==
    [exists |-> TRUE,
     data |-> [POI |-> <<[x |-> 0, y |-> 64, z |-> 0, msg |-> "Spawn", type |-> "spawn",
                          chunk |-> <<0, 0>>]>>]]

SpawnTrees == {[files |-> <<N_0_0, N_m1_0, N_0_m1>>, subdirs |-> <<>>]}

\* a World that has not been constructed yet: the class attributes
Unbuilt ==
    /\ pc = "start"
    /\ outcome = "ok"
    /\ regionfiles = EmptyDict
    /\ regions = EmptyDict
    /\ POI = <<>>
    /\ persistentData = EmptyDict
    /\ mincol = 0 /\ maxcol = 0 /\ minrow = 0 /\ maxrow = 0
    /\ trace = <<>>
    /\ reads = {}
    /\ spawnY = 0
    /\ inChunk = <<0, 0>>
    /\ lastCall = NoCall

\* worlds that differ in their region directory and their format version
InitDiscovery ==
    /\ fs \in FlatTrees \cup NestedTrees
    /\ regionlist = NoRegionList
    /\ leveldat \in Versions
    /\ blocks = DefaultVolume
    /\ pickleFile = NoPickle

\* worlds constructed with an explicit region list, with and without a
\* saved overviewer.dat
InitRegionList ==
    /\ fs \in {[files |-> l, subdirs |-> <<>>] : l \in {<<>>, <<N_1_1>>, <<N_0_0>>}}
    /\ regionlist \in RegionLists
    /\ leveldat \in {LevelDat(TRUE, RequiredVersion, 0, 64, 0),
                     LevelDat(TRUE, RequiredVersion - 1, 0, 64, 0)}
    /\ blocks = DefaultVolume
    /\ pickleFile \in {NoPickle, SavedPickle}

\* worlds that differ in their spawn position and their spawn chunk
InitSpawn ==
    /\ fs \in SpawnTrees
    /\ regionlist = NoRegionList
    /\ leveldat \in {LevelDat(TRUE, RequiredVersion, xz[1], y, xz[2]) :
                        xz \in SpawnXZs, y \in SpawnYs}
    /\ blocks \in Volumes
    /\ pickleFile = NoPickle

Init ==
    /\ Unbuilt
    /\ \/ InitDiscovery
       \/ InitRegionList
       \/ InitSpawn

Next ==
    \/ Construct
    \/ Go
    \/ FindTrueSpawn
    \/ FindTrueSpawnLoop
    \/ GetRegionPath
    \/ LoadRegion
    \/ LoadFromRegion

Spec == Init /\ [][Next]_vars

(***************************************************************************)
(* The coordinate transform on its own: the pairs are the inputs           *)
(***************************************************************************)
Coords == (0 - MaxCoord)..MaxCoord
Diagonals == (0 - 2 * MaxCoord)..(2 * MaxCoord)

\* a World over an empty region directory
InitCoords ==
    /\ fs = [files |-> <<>>, subdirs |-> <<>>]
    /\ regionlist = NoRegionList
    /\ leveldat = LevelDat(TRUE, RequiredVersion, 0, 64, 0)
    /\ blocks = DefaultVolume
    /\ pickleFile = NoPickle
    /\ pc = "constructed"
    /\ outcome = "ok"
    /\ regionfiles = EmptyDict
    /\ regions = EmptyDict
    /\ POI = <<>>
    /\ persistentData = DefaultData
    /\ mincol = 0 /\ maxcol = 0 /\ minrow = 0 /\ maxrow = 0
    /\ trace = InitSteps(fs, regionlist, leveldat).trace
    /\ reads = {}
    /\ spawnY = 0
    /\ inChunk = <<0, 0>>
    /\ lastCall = [op |-> "__init__"]

ConvertCoords ==
    /\ Usable
    /\ \E chunkx \in Coords, chunky \in Coords :
          lastCall' = [op |-> "convert_coords", chunkx |-> chunkx, chunky |-> chunky,
                       result |-> convert_coords(chunkx, chunky)]
    /\ UNCHANGED <<envVars, persistentData, pc, outcome, regionfiles, regions, POI, boxVars, trace, scanVars>>

UnconvertCoords ==
    /\ Usable
    /\ \E col \in Diagonals, row \in Diagonals :
          lastCall' = [op |-> "unconvert_coords", col |-> col, row |-> row,
                       result |-> unconvert_coords(col, row)]
    /\ UNCHANGED <<envVars, persistentData, pc, outcome, regionfiles, regions, POI, boxVars, trace, scanVars>>

NextCoords ==
    \/ ConvertCoords
    \/ UnconvertCoords

SpecCoords == InitCoords /\ [][NextCoords]_vars

(***************************************************************************)
(* Properties                                                              *)
(***************************************************************************)
SetMin(S) == CHOOSE m \in S : \A n \in S : m <= n
SetMax(S) == CHOOSE m \in S : \A n \in S : m >= n

Keys == DOMAIN regionfiles
KeyXs(ks) == {k[1] : k \in ks}
KeyYs(ks) == {k[2] : k \in ks}

\* go has run past the empty-index test and has assigned the box
BoxAssigned == lastCall.op = "go" /\ pc \in {"scanning", "scanned", "raised"}

TheBox == [mincol |-> mincol, maxcol |-> maxcol, minrow |-> minrow, maxrow |-> maxrow]

\* the elementwise min/max of the four projected corners of the chunk
\* rectangle spanned by the region coordinates ks
CornerBox(ks) ==
    LET minX == SetMin(KeyXs(ks)) * RegionSize
        minY == SetMin(KeyYs(ks)) * RegionSize
        maxX == SetMax(KeyXs(ks)) * RegionSize + RegionSize
        maxY == SetMax(KeyYs(ks)) * RegionSize + RegionSize
        proj == {convert_coords(c[1], c[2]) :
                    c \in {<<minX, minY>>, <<minX, maxY>>, <<maxX, minY>>, <<maxX, maxY>>}}
    IN [mincol |-> SetMin({q[1] : q \in proj}), maxcol |-> SetMax({q[1] : q \in proj}),
        minrow |-> SetMin({q[2] : q \in proj}), maxrow |-> SetMax({q[2] : q \in proj})]

\* C1 as stated: go sets the box to the min/max of the four projected
\* corners, the region extent being taken over the discovered keys only.
C1_BoxOverKeysOnly == BoxAssigned => TheBox = CornerBox(Keys)

\* C1 amended: go sets the box to the min/max of the four projected corners,
\* the region extent being taken over the discovered keys together with the
\* origin region (0,0), from which the scan of go starts.
C1_BoxOverKeysAndOrigin == BoxAssigned => TheBox = CornerBox(Keys \cup {<<0, 0>>})

\* go has run on an index whose regions all lie away from the origin
C1_Witness ==
    /\ BoxAssigned
    /\ SetMin(KeyXs(Keys)) > 0
    /\ TheBox = CornerBox(Keys \cup {<<0, 0>>})
    /\ TheBox # CornerBox(Keys)

\* C2: unconvert_coords undoes convert_coords on every integer pair, and
\* both halvings are exact on a pair convert_coords produced.
C2_RoundTrip ==
    lastCall.op = "unconvert_coords" =>
        \A x \in Coords, y \in Coords :
            convert_coords(x, y) = <<lastCall.col, lastCall.row>> =>
                /\ lastCall.result = <<x, y>>
                /\ 2 * lastCall.result[1] = lastCall.col - lastCall.row
                /\ 2 * lastCall.result[2] = lastCall.col + lastCall.row

\* unconvert_coords has been applied to the image of a pair of negatives
C2_Witness ==
    /\ lastCall.op = "unconvert_coords"
    /\ \E x \in Coords, y \in Coords :
          /\ x < 0 /\ y < 0 /\ x # y
          /\ convert_coords(x, y) = <<lastCall.col, lastCall.row>>
          /\ lastCall.result = <<x, y>>

\* the region coordinate k with k*32 <= c < k*32 + 32
FloorKey(c) ==
    CHOOSE k \in (0 - MaxRegion - 1)..(MaxRegion + 1) :
        k * RegionSize <= c /\ c < k * RegionSize + RegionSize

\* C3: get_region_path is a function of the floor region key of the chunk:
\* the recorded path of that key when it was discovered, None otherwise.
C3_PathByFloorKey ==
    lastCall.op = "get_region_path" =>
        LET key == <<FloorKey(lastCall.chunkX), FloorKey(lastCall.chunkY)>>
        IN IF key \in Keys
           THEN /\ lastCall.result = regionfiles[key][3]
                /\ lastCall.result \in DOMAIN regions
           ELSE lastCall.result = None

\* a negative chunk coordinate has been resolved to a discovered region
C3_Witness ==
    /\ lastCall.op = "get_region_path"
    /\ lastCall.chunkX = -1
    /\ lastCall.result # None
    /\ <<-1, FloorKey(lastCall.chunkY)>> \in Keys

\* C4: every subscript findTrueSpawn applies to the block array lies inside
\* the 16x16x128 volume, whatever the spawn position is.
C4_ReadsInsideVolume ==
    \A r \in reads :
        /\ r[1] \in 0..(ChunkSize - 1)
        /\ r[2] \in 0..(ChunkSize - 1)
        /\ r[3] \in 0..(ChunkHeight - 1)

\* a file operation on a region file
TouchesRegions(ev) == ev[1] \in {"open", "parse"}

\* C5: a World whose construction ends in the unsupported-format exit has
\* not opened any region file nor parsed its header before.
C5_VersionCheckFirst ==
    outcome = "unsupported format" =>
        \A i \in 1..Len(trace) : ~TouchesRegions(trace[i])

\* C6: on an empty region index go exits with "no regions found" and leaves
\* the box and the points of interest as they were, without a spawn scan
\* and without a file operation.
C6_NoRegionsNoBox ==
    [][(Usable /\ Keys = {} /\ lastCall'.op = "go") =>
          /\ pc' = "exited"
          /\ outcome' = "no regions found"
          /\ UNCHANGED <<boxVars, POI, scanVars, trace>>]_vars

\* go has ended in the no-regions exit
C6_Witness ==
    /\ lastCall.op = "go"
    /\ pc = "exited"
    /\ outcome = "no regions found"
    /\ TheBox = ZeroBox /\ POI = <<>>

\* the keys of the well-formed entries of an explicit region list
ListedKeys(entries) ==
    {<<it[1], it[2]>> : it \in
        UNION {{y.items[j] : j \in 1..Len(y.items)} : y \in
            {YieldFile(RegionDir, Basename(StripNewline(entries[i]))) : i \in 1..Len(entries)}}}

\* C7: a World constructed with an explicit region list has exactly the keys
\* of the well-formed entries of that list as the keys of its index.
C7_IndexFromRegionList ==
    (regionlist.given /\ Usable) => Keys = ListedKeys(regionlist.entries)

EventCount(tr, ev) == Cardinality({i \in 1..Len(tr) : tr[i] = ev})

IsLoad(call) == call.op \in {"load_region", "load_from_region"}

\* the opens and header parses among the file operations tr
RegionOps(tr) == SelectSeq(tr, TouchesRegions)

\* C8: once the World is constructed no step changes the reader cache, opens
\* a reader or parses a header, a load_region or load_from_region call issues
\* no file operation at all, every cached path has been opened and parsed
\* exactly once, and a load returns the cached reader of its path, the same
\* one as the call before for the same path.
C8_ReadersCachedOnce ==
    [][pc # "start" =>
          /\ regions' = regions
          /\ RegionOps(trace') = RegionOps(trace)
          /\ (Usable /\ IsLoad(lastCall')) => trace' = trace
          /\ \A path \in DOMAIN regions :
                /\ EventCount(trace', <<"open", path>>) = 1
                /\ EventCount(trace', <<"parse", path>>) = 1
          /\ (IsLoad(lastCall') /\ lastCall'.err = "none") =>
                lastCall'.reader = regions[lastCall'.filename]
          /\ (IsLoad(lastCall) /\ IsLoad(lastCall') /\ lastCall.err = "none"
                /\ lastCall'.err = "none" /\ lastCall.filename = lastCall'.filename) =>
                lastCall'.reader = lastCall.reader]_vars

\* a chunk has been loaded through the cached reader of one of several regions
C8_Witness ==
    /\ lastCall.op = "load_from_region"
    /\ lastCall.err = "none"
    /\ Cardinality(DOMAIN regions) >= 2
    /\ lastCall.reader = regions[lastCall.filename]
    /\ lastCall.result = "chunk"

\* the heights from the declared spawn height up that hold air in the
\* spawn column
AirAbove ==
    {h \in leveldat.SpawnY..(ChunkHeight - 1) :
        BlockAt(blocks, leveldat.SpawnX % ChunkSize, leveldat.SpawnZ % ChunkSize, h) = 0}

\* C9: from a declared spawn height in 0..127 every pass of the scan either
\* moves one voxel up, staying below the ceiling, or ends the scan, no pass
\* fails, and the scan ends by appending the one point of interest, with x
\* and z as declared and y the lowest air height at or above the declared
\* one, 128 when the column holds none.
C9_FirstAirAbove ==
    [][(pc = "scanning" /\ leveldat.SpawnY \in 0..(ChunkHeight - 1)) =>
          /\ spawnY \in leveldat.SpawnY..(ChunkHeight - 1)
          /\ pc' \in {"scanning", "scanned"}
          /\ pc' = "scanning" =>
                /\ spawnY' = spawnY + 1
                /\ spawnY' <= ChunkHeight - 1
                /\ POI' = POI
          /\ pc' = "scanned" =>
                /\ Len(POI') = Len(POI) + 1
                /\ SubSeq(POI', 1, Len(POI)) = POI
                /\ POI'[Len(POI')].x = leveldat.SpawnX
                /\ POI'[Len(POI')].z = leveldat.SpawnZ
                /\ POI'[Len(POI')].y =
                      IF AirAbove = {} THEN ChunkHeight ELSE SetMin(AirAbove)]_vars

\* the scan has run into the ceiling from below
C9_Witness ==
    /\ pc = "scanned"
    /\ leveldat.SpawnY \in 0..(ChunkHeight - 2)
    /\ leveldat.SpawnX < 0
    /\ Len(POI) = 1
    /\ POI[1].y = ChunkHeight
    /\ AirAbove = {}

\* C10: after go the box holds the projection of every chunk of every
\* discovered region, the far edges included.
C10_BoxCoversRegions ==
    (lastCall.op = "go" /\ pc = "scanned") =>
        \A k \in Keys :
            \A cx \in (k[1] * RegionSize)..(k[1] * RegionSize + RegionSize),
               cy \in (k[2] * RegionSize)..(k[2] * RegionSize + RegionSize) :
                LET cr == convert_coords(cx, cy)
                IN /\ mincol <= cr[1] /\ cr[1] <= maxcol
                   /\ minrow <= cr[2] /\ cr[2] <= maxrow

\* go has completed on several regions, one of them west of the origin
C10_Witness ==
    /\ lastCall.op = "go"
    /\ pc = "scanned"
    /\ Cardinality(Keys) >= 2
    /\ \E k \in Keys : k[1] < 0
====
